---- MODULE Spec2Model ----
(***************************************************************************)
(* Model of .github/scripts/fetch_lake_data.py: the fetch / parse /        *)
(* normalize / window / write pipeline that main() runs once per source.   *)
(*                                                                         *)
(* Text is modelled by tokens (the whitespace-free pieces str.split()      *)
(* yields).  A token keeps its lexical form, so that parsing (strptime)    *)
(* and formatting (strftime) are conversions and not the identity:         *)
(*   date token  [k |-> "date", d, m, y, form]  the text ddMONyyyy, the    *)
(*               month abbreviation written "JAN" (form "UPPER") or        *)
(*               "Jan" (form "Title");                                     *)
(*   time token  [k |-> "time", h, mi]         the four digits hhmm;       *)
(*   word token  [k |-> "word", s]             any other text s.           *)
(* A line is the sequence of its tokens; a row is a sequence of tokens.    *)
(***************************************************************************)
EXTENDS Integers, Sequences, FiniteSets, TLC

VARIABLES
    pc,        \* main's position: "fetch", "write", "done" or "raised"
    idx,       \* index in the registry (URLS) of the source being processed
    nsrc,      \* number of sources in the registry
    response,  \* the HTTP exchange of the last fetch_data call
    data,      \* main's local `data`: what the last fetch_data returned
    now,       \* datetime.now() as read by the last write_to_csv call
    files,     \* files[s]: content of CSV_FILES[s]
    calls,     \* history: the calls main has made, in order
    attempts,  \* attempts[s]: number of requests.get calls made for source s
    outcome,   \* outcome[s]: how the fetch and the write of source s ended
    nt_in,     \* arguments of a normalize_timestamp call
    nt_out     \* its result

vars == <<pc, idx, nsrc, response, data, now, files, calls, attempts, outcome,
          nt_in, nt_out>>

(***************************************************************************)
(* Bounds of the model.                                                    *)
(***************************************************************************)
\* longest preformatted block explored by the single-source pipeline
MaxLines == 3
\* number of sources in the registry of the modelled run of main
NumSources == 2

(***************************************************************************)
(* Calendar arithmetic of datetime / timedelta.                            *)
(***************************************************************************)
\* datetime.MAXYEAR: the last year a datetime can hold
MAXYEAR == 9999

\* timedelta(days=5) of write_to_csv
WindowDays == 5

\* is_valid_row's minimum number of columns
MinColumns == 4

IsLeap(y) == (y % 4 = 0) /\ ((y % 100 # 0) \/ (y % 400 = 0))

DaysInMonth(m, y) ==
    IF m = 2 THEN (IF IsLeap(y) THEN 29 ELSE 28)
    ELSE IF m \in {4, 6, 9, 11} THEN 30 ELSE 31

\* a datetime value
DT(y, m, d, h, mi) == [y |-> y, m |-> m, d |-> d, h |-> h, mi |-> mi]

IsCalendarDay(d, m, y) ==
    /\ y \in 1..MAXYEAR
    /\ m \in 1..12
    /\ d \in 1..DaysInMonth(m, y)

\* dt + timedelta(days=1); OverflowError past 31 Dec MAXYEAR
AddOneDay(dt) ==
    IF dt.d < DaysInMonth(dt.m, dt.y)
    THEN [exc |-> "none", dt |-> [dt EXCEPT !.d = dt.d + 1]]
    ELSE IF dt.m < 12
    THEN [exc |-> "none", dt |-> [dt EXCEPT !.d = 1, !.m = dt.m + 1]]
    ELSE IF dt.y < MAXYEAR
    THEN [exc |-> "none", dt |-> [dt EXCEPT !.d = 1, !.m = 1, !.y = dt.y + 1]]
    ELSE [exc |-> "OverflowError"]

\* dt - timedelta(days=1), for dates after year 1
SubOneDay(dt) ==
    IF dt.d > 1 THEN [dt EXCEPT !.d = dt.d - 1]
    ELSE IF dt.m > 1
    THEN [dt EXCEPT !.d = DaysInMonth(dt.m - 1, dt.y), !.m = dt.m - 1]
    ELSE [dt EXCEPT !.d = 31, !.m = 12, !.y = dt.y - 1]

RECURSIVE SubDays(_, _)
SubDays(dt, n) == IF n = 0 THEN dt ELSE SubDays(SubOneDay(dt), n - 1)

\* datetime comparison a < b (year, month, day, hour, minute in turn)
DtLess(a, b) ==
    \/ a.y < b.y
    \/ a.y = b.y /\ a.m < b.m
    \/ a.y = b.y /\ a.m = b.m /\ a.d < b.d
    \/ a.y = b.y /\ a.m = b.m /\ a.d = b.d /\ a.h < b.h
    \/ a.y = b.y /\ a.m = b.m /\ a.d = b.d /\ a.h = b.h /\ a.mi < b.mi

DtGeq(a, b) == ~DtLess(a, b)

(***************************************************************************)
(* Tokens, and the string operations the script applies to them.           *)
(***************************************************************************)
DateTok(d, m, y, form) == [k |-> "date", d |-> d, m |-> m, y |-> y, form |-> form]
TimeTok(h, mi) == [k |-> "time", h |-> h, mi |-> mi]
Word(s) == [k |-> "word", s |-> s]

\* the words of the model's vocabulary that contain a decimal digit
DigitWords == {"1120.50", "1121.75", "7-Day"}

\* any(char.isdigit() for char in row)
HasDigit(row) ==
    \E i \in 1..Len(row) :
        \/ row[i].k \in {"date", "time"}
        \/ row[i].k = "word" /\ row[i].s \in DigitWords

\* "JAN" in row: the only tokens of the vocabulary holding the three
\* capitals are the dates written with the upper-case abbreviation
ContainsJAN(row) ==
    \E i \in 1..Len(row) :
        row[i].k = "date" /\ row[i].m = 1 /\ row[i].form = "UPPER"

\* "7-Day" in row or "Plot" in row
ContainsFooter(row) ==
    \E i \in 1..Len(row) : row[i].k = "word" /\ row[i].s \in {"7-Day", "Plot"}

\* datetime.strptime(text, "%d%b%Y"); %b matches either case
StrptimeDate(tok) ==
    IF tok.k = "date" /\ IsCalendarDay(tok.d, tok.m, tok.y)
    THEN [exc |-> "none", dt |-> DT(tok.y, tok.m, tok.d, 0, 0)]
    ELSE [exc |-> "ValueError"]

\* datetime.strptime(f"{date} {time}", "%d%b%Y %H%M")
StrptimeDateTime(dtok, ttok) ==
    IF /\ StrptimeDate(dtok).exc = "none"
       /\ ttok.k = "time" /\ ttok.h \in 0..23 /\ ttok.mi \in 0..59
    THEN [exc |-> "none", dt |-> DT(dtok.y, dtok.m, dtok.d, ttok.h, ttok.mi)]
    ELSE [exc |-> "ValueError"]

\* date_obj.strftime("%d%b%Y"): %b writes the locale's abbreviation, "Jan"
StrftimeDate(dt) == DateTok(dt.d, dt.m, dt.y, "Title")

\* raw_time == "2400"
Is2400(tok) == tok.k = "time" /\ tok.h = 24 /\ tok.mi = 0

(***************************************************************************)
(* normalize_timestamp(raw_date, raw_time)                                 *)
(***************************************************************************)
normalize_timestamp(raw_date, raw_time) ==
    IF Is2400(raw_time)
    THEN LET p == StrptimeDate(raw_date)
         IN IF p.exc # "none" THEN [exc |-> p.exc]
            ELSE LET date_obj == AddOneDay(p.dt)
                 IN IF date_obj.exc # "none" THEN [exc |-> date_obj.exc]
                    ELSE [exc |-> "none",
                          date |-> StrftimeDate(date_obj.dt),
                          time |-> TimeTok(0, 0)]
    ELSE [exc |-> "none", date |-> raw_date, time |-> raw_time]

(***************************************************************************)
(* is_valid_row(row)                                                       *)
(***************************************************************************)
\* value.strip() in ["---", "----", "--", "-"]; a token holds no whitespace
IsSentinel(tok) == tok.k = "word" /\ tok.s \in {"---", "----", "--", "-"}

\* is_valid_row without its check for sentinel values
is_valid_row_no_sentinel(row) ==
    IF Len(row) < MinColumns THEN FALSE
    ELSE StrptimeDateTime(row[1], row[2]).exc = "none"

is_valid_row(row) ==
    IF Len(row) < MinColumns THEN FALSE
    ELSE IF \E i \in 1..Len(row) : IsSentinel(row[i]) THEN FALSE
    ELSE StrptimeDateTime(row[1], row[2]).exc = "none"

(***************************************************************************)
(* fetch_data(url)                                                         *)
(***************************************************************************)
\* the body of the try statement of the parse loop, for the split line
\* `columns`: the exception it raises, or the row and whether it is kept
ParseRow(columns) ==
    IF Len(columns) < 2 THEN [exc |-> "IndexError"]
    ELSE LET nt == normalize_timestamp(columns[1], columns[2])
         IN IF nt.exc # "none" THEN [exc |-> nt.exc]
            ELSE LET full_row == <<nt.date, nt.time>>
                                 \o SubSeq(columns, 3, Len(columns))
                 IN [exc |-> "none", keep |-> is_valid_row(full_row),
                     row |-> full_row]

\* the for loop over the lines of the <pre> block, from line i on
RECURSIVE ParseLoop(_, _, _, _)
ParseLoop(rows, i, start_parsing, parsed_data) ==
    IF i > Len(rows) THEN [exc |-> "none", val |-> parsed_data]
    ELSE LET row == rows[i]
             started == start_parsing \/ (HasDigit(row) /\ ContainsJAN(row))
         IN IF ~started THEN ParseLoop(rows, i + 1, FALSE, parsed_data)
            ELSE IF ContainsFooter(row)
            THEN [exc |-> "none", val |-> parsed_data]
            ELSE LET r == ParseRow(row)
                 IN IF r.exc \in {"IndexError", "ValueError"}
                    THEN ParseLoop(rows, i + 1, TRUE, parsed_data)
                    ELSE IF r.exc # "none" THEN [exc |-> r.exc]
                    ELSE IF ~r.keep
                    THEN ParseLoop(rows, i + 1, TRUE, parsed_data)
                    ELSE ParseLoop(rows, i + 1, TRUE, Append(parsed_data, r.row))

\* the try block of fetch_data for the HTTP exchange resp:
\*   resp.kind = "ConnectionError": requests.get raises
\*   resp.kind = "HTTPError": raise_for_status raises (a non-2xx status)
\*   resp.kind = "no_pre": the document holds no <pre> tag
\*   resp.kind = "ok": resp.lines are the lines of the <pre> block
FetchBody(resp) ==
    IF resp.kind \in {"ConnectionError", "HTTPError"}
    THEN [exc |-> resp.kind]
    ELSE IF resp.kind = "no_pre" THEN [exc |-> "none", val |-> <<>>]
    ELSE ParseLoop(resp.lines, 1, FALSE, <<>>)

\* fetch_data without its handler: what the try block raises reaches main
fetch_data_uncaught(resp) ==
    LET b == FetchBody(resp)
    IN IF b.exc # "none"
       THEN [exc |-> b.exc, val |-> <<>>, caught |-> "none", gets |-> 1]
       ELSE [exc |-> "none", val |-> b.val, caught |-> "none", gets |-> 1]

\* fetch_data: exc is what it raises to its caller, val what it returns,
\* caught the exception its handler swallowed, gets the requests.get calls
fetch_data(resp) ==
    LET b == FetchBody(resp)
    IN IF b.exc # "none"
       THEN [exc |-> "none", val |-> <<>>, caught |-> b.exc, gets |-> 1]
       ELSE [exc |-> "none", val |-> b.val, caught |-> "none", gets |-> 1]

(***************************************************************************)
(* sort_rows(data)                                                         *)
(***************************************************************************)
\* the sort key of a row: strptime of its first two fields
SortKey(x) ==
    IF Len(x) < 2 THEN [exc |-> "IndexError"]
    ELSE StrptimeDateTime(x[1], x[2])

\* stable insertion of row x into the sorted sequence s
RECURSIVE InsertSorted(_, _)
InsertSorted(s, x) ==
    IF s = <<>> THEN <<x>>
    ELSE IF DtLess(SortKey(x).dt, SortKey(s[Len(s)]).dt)
    THEN Append(InsertSorted(SubSeq(s, 1, Len(s) - 1), x), s[Len(s)])
    ELSE Append(s, x)

\* sorted(data, key=...): a stable sort
RECURSIVE Sorted(_)
Sorted(s) ==
    IF s = <<>> THEN <<>>
    ELSE InsertSorted(Sorted(SubSeq(s, 1, Len(s) - 1)), s[Len(s)])

\* sort_rows returning the rows in the order it was given them
sort_rows_unsorted(rows) == rows

sort_rows(rows) ==
    IF \E i \in 1..Len(rows) : SortKey(rows[i]).exc # "none"
    THEN rows
    ELSE Sorted(rows)

(***************************************************************************)
(* clean_and_limit_data(data, cutoff_date)                                 *)
(***************************************************************************)
\* timestamp = f"{row[0]} {row[1]}": the dictionary key, a string
TimestampKey(row) == <<row[1], row[2]>>

\* unique_data[timestamp] = row on the dictionary held, in insertion
\* order, as the sequence of its values
DictSet(unique_data, row) ==
    IF \E i \in 1..Len(unique_data) :
           TimestampKey(unique_data[i]) = TimestampKey(row)
    THEN LET i == CHOOSE j \in 1..Len(unique_data) :
                      TimestampKey(unique_data[j]) = TimestampKey(row)
         IN [unique_data EXCEPT ![i] = row]
    ELSE Append(unique_data, row)

\* row_date >= cutoff_date
InWindow(row_date, cutoff_date) == DtGeq(row_date, cutoff_date)

RECURSIVE CleanLoop(_, _, _, _)
CleanLoop(rows, i, cutoff_date, unique_data) ==
    IF i > Len(rows) THEN unique_data
    ELSE LET row == rows[i]
         IN IF Len(row) < 2
            THEN CleanLoop(rows, i + 1, cutoff_date, unique_data)
            ELSE LET p == StrptimeDate(row[1])
                 IN IF p.exc = "none" /\ InWindow(p.dt, cutoff_date)
                    THEN CleanLoop(rows, i + 1, cutoff_date,
                                   DictSet(unique_data, row))
                    ELSE CleanLoop(rows, i + 1, cutoff_date, unique_data)

clean_and_limit_data(rows, cutoff_date) ==
    sort_rows(CleanLoop(rows, 1, cutoff_date, <<>>))

(***************************************************************************)
(* write_to_csv(file_path, data, headers)                                  *)
(***************************************************************************)
\* a file that does not exist
Absent == [exists |-> FALSE, header |-> <<>>, rows |-> <<>>]

\* cutoff_date = datetime.now() - timedelta(days=5)
Cutoff(nowdt) == SubDays(nowdt, WindowDays)

\* the try block: io = "PermissionError" when open(file_path, "w") fails
WriteBody(file, rows, headers, nowdt, io) ==
    LET cleaned_data == clean_and_limit_data(rows, Cutoff(nowdt))
    IN IF io # "ok" THEN [exc |-> io]
       ELSE [exc |-> "none",
             file |-> [exists |-> TRUE, header |-> <<headers>>,
                       rows |-> cleaned_data]]

\* write_to_csv opening the file to append (mode "a") instead of "w"
write_to_csv_append(file, rows, headers, nowdt, io) ==
    LET b == WriteBody(file, rows, headers, nowdt, io)
    IN IF b.exc # "none"
       THEN [exc |-> "none", file |-> file, caught |-> b.exc]
       ELSE [exc |-> "none", caught |-> "none",
             file |-> [exists |-> TRUE,
                       header |-> file.header \o b.file.header,
                       rows |-> file.rows \o b.file.rows]]

\* exc: what write_to_csv raises to its caller; file: the file afterwards
write_to_csv(file, rows, headers, nowdt, io) ==
    LET b == WriteBody(file, rows, headers, nowdt, io)
    IN IF b.exc # "none"
       THEN [exc |-> "none", file |-> file, caught |-> b.exc]
       ELSE [exc |-> "none", file |-> b.file, caught |-> "none"]

(***************************************************************************)
(* The inputs the model explores.                                          *)
(***************************************************************************)
UD(d, m, y) == DateTok(d, m, y, "UPPER")

\* two different pairs of measurement fields
FieldsA == <<Word("1120.50"), Word("1120.50")>>
FieldsB == <<Word("1121.75"), Word("1121.75")>>

\* the lines a <pre> block is made of
LineVocab ==
    { <<UD(31, 12, 2024), TimeTok(12, 0)>> \o FieldsA,
      <<UD(31, 12, 2024), TimeTok(24, 0)>> \o FieldsA,
      <<UD(1, 1, 2025), TimeTok(0, 0)>> \o FieldsB,
      <<UD(1, 1, 2025), TimeTok(6, 0)>> \o FieldsA,
      <<UD(1, 1, 2025), TimeTok(6, 0)>> \o FieldsB,
      <<UD(1, 2, 2025), TimeTok(6, 0)>> \o FieldsA,
      <<UD(31, 12, MAXYEAR), TimeTok(24, 0)>> \o FieldsA,
      <<UD(1, 1, 2025), TimeTok(6, 0), Word("---"), Word("1120.50")>>,
      <<UD(1, 1, 2025), TimeTok(6, 0), Word("1120.50")>>,
      <<UD(31, 2, 2025), TimeTok(24, 0)>> \o FieldsA,
      <<UD(1, 1, 2025), TimeTok(25, 0)>> \o FieldsA,
      <<Word("Date")>>,
      <<Word("7-Day")>> }

RECURSIVE SeqsOfLen(_, _)
SeqsOfLen(S, n) ==
    IF n = 0 THEN {<<>>}
    ELSE {Append(q, x) : q \in SeqsOfLen(S, n - 1), x \in S}

\* the <pre> blocks of at most MaxLines lines
Docs == UNION {SeqsOfLen(LineVocab, n) : n \in 0..MaxLines}

Failures ==
    {[kind |-> k, lines |-> <<>>] : k \in {"ConnectionError", "HTTPError", "no_pre"}}

\* the HTTP exchanges of the single-source pipeline
PipeResponses == Failures \cup {[kind |-> "ok", lines |-> d] : d \in Docs}

\* the HTTP exchanges of a run over several sources
RunDocs ==
    { <<>>,
      << <<UD(1, 1, 2025), TimeTok(6, 0)>> \o FieldsA >>,
      << <<UD(1, 1, 2025), TimeTok(6, 0)>> \o FieldsA,
         <<UD(31, 12, MAXYEAR), TimeTok(24, 0)>> \o FieldsA >> }

RunResponses == Failures \cup {[kind |-> "ok", lines |-> d] : d \in RunDocs}

\* the wall-clock times a write may read
Nows == {DT(2025, 1, 5, 0, 0), DT(2025, 1, 5, 12, 30), DT(2025, 1, 6, 0, 0)}

\* whether the destination can be opened for writing
IOs == {"ok", "PermissionError"}

\* what an earlier run left in the file of source s
OldFile(s) ==
    [exists |-> TRUE, header |-> <<s>>,
     rows |-> << <<UD(30, 12, 2024), TimeTok(12, 0)>> \o FieldsA >>]

NoResponse == [kind |-> "none", lines |-> <<>>]
NoTime == DT(0, 0, 0, 0, 0)
Pending == [fetch |-> "pending", write |-> "pending"]
NoCall == [exc |-> "idle"]

(***************************************************************************)
(* main(): for key, url in URLS.items(): fetch_data, then write_to_csv.    *)
(* HEADERS[key] is modelled by the key itself.                             *)
(***************************************************************************)
\* data = fetch_data(url), the server answering with resp
Fetch(resp) ==
    /\ pc = "fetch"
    /\ LET r == fetch_data(resp)
       IN /\ response' = resp
          /\ attempts' = [attempts EXCEPT ![idx] = @ + r.gets]
          /\ calls' = Append(calls, <<"fetch", idx>>)
          /\ outcome' = [outcome EXCEPT ![idx].fetch =
                            IF r.exc # "none" THEN r.exc
                            ELSE IF r.caught # "none" THEN r.caught
                            ELSE IF resp.kind = "no_pre" THEN "no_pre"
                            ELSE "returned"]
          /\ IF r.exc # "none"
             THEN pc' = "raised" /\ data' = data
             ELSE pc' = "write" /\ data' = r.val
    /\ UNCHANGED <<idx, nsrc, now, files, nt_in, nt_out>>

\* write_to_csv(file_path, data, headers), the clock reading nowdt
Write(nowdt, io) ==
    /\ pc = "write"
    /\ DtGeq(nowdt, now)
    /\ LET w == write_to_csv(files[idx], data, idx, nowdt, io)
       IN /\ now' = nowdt
          /\ calls' = Append(calls, <<"write", idx>>)
          /\ outcome' = [outcome EXCEPT ![idx].write =
                            IF w.exc # "none" THEN w.exc
                            ELSE IF w.caught # "none" THEN w.caught
                            ELSE "written"]
          /\ IF w.exc # "none"
             THEN pc' = "raised" /\ files' = files /\ idx' = idx
             ELSE /\ files' = [files EXCEPT ![idx] = w.file]
                  /\ IF idx < nsrc
                     THEN pc' = "fetch" /\ idx' = idx + 1
                     ELSE pc' = "done" /\ idx' = idx
    /\ UNCHANGED <<nsrc, response, data, attempts, nt_in, nt_out>>

InitRun(n, initFiles) ==
    /\ pc = "fetch"
    /\ idx = 1
    /\ nsrc = n
    /\ response = NoResponse
    /\ data = <<>>
    /\ now = NoTime
    /\ files \in initFiles
    /\ calls = <<>>
    /\ attempts = [s \in 1..n |-> 0]
    /\ outcome = [s \in 1..n |-> Pending]
    /\ nt_in = NoCall
    /\ nt_out = NoCall

\* a run of main over NumSources sources
Init == InitRun(NumSources, [1..NumSources -> {Absent}]
                            \cup {[s \in 1..NumSources |-> OldFile(s)]})

Next ==
    \/ pc = "fetch" /\ \E resp \in RunResponses : Fetch(resp)
    \/ pc = "write" /\ \E nowdt \in Nows, io \in IOs : Write(nowdt, io)

Spec == Init /\ [][Next]_vars

\* the pipeline of one source, over every block of at most MaxLines lines
InitPipe == InitRun(1, {[s \in {1} |-> Absent]})

NextPipe ==
    \/ pc = "fetch" /\ \E resp \in PipeResponses : Fetch(resp)
    \/ pc = "write" /\ \E nowdt \in Nows : Write(nowdt, "ok")

SpecPipe == InitPipe /\ [][NextPipe]_vars

(***************************************************************************)
(* normalize_timestamp called on its own.                                  *)
(***************************************************************************)
NormDates ==
    {DateTok(d, m, y, f) : d \in {1, 28, 29, 30, 31}, m \in {1, 2, 12},
                           y \in {2024, 2025, MAXYEAR}, f \in {"UPPER", "Title"}}
    \cup {Word("Date")}

NormTimes == {TimeTok(0, 0), TimeTok(6, 0), TimeTok(23, 59), TimeTok(24, 0),
              TimeTok(25, 0)}

InitNorm ==
    /\ pc = "norm"
    /\ idx = 1
    /\ nsrc = 1
    /\ response = NoResponse
    /\ data = <<>>
    /\ now = NoTime
    /\ files = [s \in {1} |-> Absent]
    /\ calls = <<>>
    /\ attempts = [s \in {1} |-> 0]
    /\ outcome = [s \in {1} |-> Pending]
    /\ nt_in \in {[exc |-> "args", date |-> d, time |-> t] :
                     d \in NormDates, t \in NormTimes}
    /\ nt_out = NoCall

Normalize ==
    /\ pc = "norm"
    /\ nt_out = NoCall
    /\ nt_out' = normalize_timestamp(nt_in.date, nt_in.time)
    /\ UNCHANGED <<pc, idx, nsrc, response, data, now, files, calls, attempts,
                   outcome, nt_in>>

NextNorm == Normalize

SpecNorm == InitNorm /\ [][NextNorm]_vars

(***************************************************************************)
(* What the specification says of a line, stated without the code.         *)
(***************************************************************************)
\* the line is a well-formed data row: enough fields, no sentinel, a
\* calendar date and a time of day, "2400" standing for the next midnight
WellFormed(line) ==
    /\ Len(line) >= MinColumns
    /\ \A i \in 1..Len(line) : ~IsSentinel(line[i])
    /\ line[1].k = "date" /\ IsCalendarDay(line[1].d, line[1].m, line[1].y)
    /\ line[2].k = "time"
    /\ \/ line[2].h \in 0..23 /\ line[2].mi \in 0..59
       \/ Is2400(line[2]) /\ AddOneDay(DT(line[1].y, line[1].m, line[1].d, 0, 0)).exc = "none"

\* the instant a well-formed line stands for
TrueStamp(line) ==
    IF Is2400(line[2])
    THEN AddOneDay(DT(line[1].y, line[1].m, line[1].d, 0, 0)).dt
    ELSE DT(line[1].y, line[1].m, line[1].d, line[2].h, line[2].mi)

\* the instant a record's date and time fields parse to
Stamp(row) == StrptimeDateTime(row[1], row[2]).dt

Fields(row) == SubSeq(row, 3, Len(row))

\* the line is well-formed and row is its record
RecordOf(row, line) ==
    /\ WellFormed(line)
    /\ StrptimeDateTime(row[1], row[2]).exc = "none"
    /\ Stamp(row) = TrueStamp(line)
    /\ Fields(row) = Fields(line)

\* the fetch of the pipeline returned from a document with a <pre> block
Parsed == pc \in {"write", "done"} /\ response.kind = "ok"

\* the pipeline's file was written
Written == pc = "done" /\ outcome[1].write = "written"

(***************************************************************************)
(* C1.  Midnight rollover: for a raw time "2400" and a raw date that is a  *)
(* valid calendar day, normalize_timestamp returns the time "0000" and     *)
(* the date advanced by exactly one calendar day, written as the raw date  *)
(* was ("31DEC2024" gives "01JAN2025"); for any other raw time it returns  *)
(* date and time unchanged.                                                *)
(***************************************************************************)
C1_MidnightRollover ==
    nt_out # NoCall =>
        IF Is2400(nt_in.time)
        THEN StrptimeDate(nt_in.date).exc = "none" =>
                 /\ nt_out.exc = "none"
                 /\ nt_out.time = TimeTok(0, 0)
                 /\ LET next == AddOneDay(StrptimeDate(nt_in.date).dt).dt
                    IN nt_out.date =
                           DateTok(next.d, next.m, next.y, nt_in.date.form)
        ELSE /\ nt_out.exc = "none"
             /\ nt_out.date = nt_in.date
             /\ nt_out.time = nt_in.time

\* the calendar date of a datetime
DateOf(dt) == <<dt.y, dt.m, dt.d>>

\* the calendar date of a is before that of b
DateLess(a, b) == DtLess(DT(a.y, a.m, a.d, 0, 0), DT(b.y, b.m, b.d, 0, 0))

\* the written file holds a record under the row's timestamp key
InFile(row) ==
    \E j \in 1..Len(files[1].rows) :
        TimestampKey(files[1].rows[j]) = TimestampKey(row)

(***************************************************************************)
(* C2.  Window boundary: after a write with cutoff = now - 5 days, every   *)
(* fetched record dated on the cutoff's calendar date is in the file, and  *)
(* no record dated before the cutoff's calendar date is.                   *)
(***************************************************************************)
C2_WindowBoundary ==
    Written =>
        \A i \in 1..Len(data) :
            /\ DateOf(Stamp(data[i])) = DateOf(Cutoff(now)) => InFile(data[i])
            /\ DateLess(Stamp(data[i]), Cutoff(now)) => ~InFile(data[i])

\* the row passes the window test of the last write
Kept(row) == InWindow(StrptimeDate(row[1]).dt, Cutoff(now))

Rejectable(line) == ~WellFormed(line)

(***************************************************************************)
(* C4.  Every record of a written file has at least the minimum number of  *)
(* fields, holds no missing-data sentinel, and has a date and time that    *)
(* parse as a timestamp; a line of the block with too few fields, a        *)
(* sentinel or an unparseable timestamp is not among the records.          *)
(***************************************************************************)
C4_RecordInvariant ==
    \A s \in 1..nsrc :
        LET out == files[s].rows
        IN /\ \A j \in 1..Len(out) :
                  /\ Len(out[j]) >= MinColumns
                  /\ \A i \in 1..Len(out[j]) : ~IsSentinel(out[j][i])
                  /\ StrptimeDateTime(out[j][1], out[j][2]).exc = "none"
           /\ \A i \in 1..Len(response.lines) :
                  Rejectable(response.lines[i]) =>
                      \A j \in 1..Len(out) : out[j] # response.lines[i]

\* a file with a record was written from a block that also held a line
\* with a sentinel, a line with too few fields and a line with a bad time
C4_Witness ==
    /\ Written
    /\ Len(files[1].rows) >= 1
    /\ \E i \in 1..Len(response.lines) :
           \E k \in 1..Len(response.lines[i]) : IsSentinel(response.lines[i][k])
    /\ \E i \in 1..Len(response.lines) :
           /\ Len(response.lines[i]) >= MinColumns
           /\ response.lines[i][2] = TimeTok(25, 0)

(***************************************************************************)
(* C5.  The records of a written file are in ascending order of their      *)
(* parsed timestamp, whatever the order of the fetched rows.               *)
(***************************************************************************)
C5_SortedOutput ==
    \A s \in 1..nsrc :
        LET out == files[s].rows
        IN \A i, j \in 1..Len(out) :
               i < j => ~DtLess(Stamp(out[j]), Stamp(out[i]))

\* rows fetched in reverse chronological order, across the year end, were
\* both written
C5_Witness ==
    /\ Written
    /\ Len(files[1].rows) >= 2
    /\ \E a, b \in 1..Len(data) :
           /\ a < b
           /\ Stamp(data[a]).y = 2025
           /\ Stamp(data[b]).y = 2024
           /\ InFile(data[a])
           /\ InFile(data[b])

\* line i lies in the data block: parsing started at or before it and no
\* footer line precedes it
InBlock(lines, i) ==
    /\ \E s \in 1..i : HasDigit(lines[s]) /\ ContainsJAN(lines[s])
    /\ \A f \in 1..i :
           ContainsFooter(lines[f]) =>
               \A s \in 1..f : ~(HasDigit(lines[s]) /\ ContainsJAN(lines[s]))

\* the record of the line is among the rows fetch_data returned
Emitted(line) == \E j \in 1..Len(data) : RecordOf(data[j], line)

(***************************************************************************)
(* C6.  Row-level isolation: every well-formed line of the data block      *)
(* (from the line that started parsing up to the footer) is among the      *)
(* rows fetch_data returns, whatever the other lines of the block are.     *)
(***************************************************************************)
C6_RowIsolation ==
    Parsed =>
        \A i \in 1..Len(response.lines) :
            (InBlock(response.lines, i) /\ WellFormed(response.lines[i]))
                => Emitted(response.lines[i])

\* fetch then write for each of the first n sources, in registry order
RECURSIVE ExpectedCalls(_)
ExpectedCalls(n) ==
    IF n = 0 THEN <<>>
    ELSE ExpectedCalls(n - 1) \o << <<"fetch", n>>, <<"write", n>> >>

(***************************************************************************)
(* C7.  Source independence: main calls fetch_data and then write_to_csv   *)
(* once for every source, in registry order, whatever the fetch and the    *)
(* write of any source run into; nothing is raised out of main, and main   *)
(* is never stopped before the last source is written.                     *)
(***************************************************************************)
C7_SourceIndependence ==
    /\ pc # "raised"
    /\ Len(calls) <= 2 * nsrc
    /\ calls = SubSeq(ExpectedCalls(nsrc), 1, Len(calls))
    /\ pc = "done" <=> calls = ExpectedCalls(nsrc)
    /\ pc # "done" => ENABLED Next

\* the run ended although the first source could be neither fetched nor
\* written, and the last source's rows are in its file
C7_Witness ==
    /\ pc = "done"
    /\ nsrc >= 2
    /\ outcome[1].fetch = "ConnectionError"
    /\ outcome[1].write = "PermissionError"
    /\ outcome[nsrc].fetch = "returned"
    /\ outcome[nsrc].write = "written"
    /\ Len(files[nsrc].rows) >= 1

\* the fetch of source s failed in one of the three ways
FetchFailed(s) == outcome[s].fetch \in {"ConnectionError", "HTTPError", "no_pre"}

(***************************************************************************)
(* C8.  A fetch that fails (network error, non-success status, no <pre>    *)
(* block) hands main an empty result and raises nothing; the write that    *)
(* follows raises nothing either and, the destination being writable,      *)
(* leaves the file holding the header line alone, whatever it held.        *)
(***************************************************************************)
C8_FailedFetchHeaderOnly ==
    \A s \in 1..nsrc :
        FetchFailed(s) =>
            /\ pc # "raised"
            /\ (idx = s /\ pc = "write") => data = <<>>
            /\ outcome[s].write \in {"pending", "written", "PermissionError"}
            /\ outcome[s].write = "pending" => (idx = s /\ pc = "write")
            /\ outcome[s].write = "written" =>
                   files[s] = [exists |-> TRUE, header |-> <<s>>, rows |-> <<>>]

\* the first source's fetch failed and its file, which held a record of
\* an earlier run as the next source's file still does, holds the header
C8_Witness ==
    /\ nsrc >= 2
    /\ outcome[1].fetch = "HTTPError"
    /\ outcome[1].write = "written"
    /\ files[2] = OldFile(2)
    /\ files[1].rows = <<>>

(***************************************************************************)
(* C9.  Retry: a fetch that ends in a network error or a non-2xx status    *)
(* has made at least three attempts before it returns the empty result.    *)
(***************************************************************************)
C9_RetriesBeforeEmpty ==
    \A s \in 1..nsrc :
        outcome[s].fetch \in {"ConnectionError", "HTTPError"} => attempts[s] >= 3

\* the line holds one of the twelve month abbreviations
ContainsMonth(row) ==
    \E i \in 1..Len(row) :
        row[i].k = "date" /\ row[i].m \in 1..12 /\ row[i].form = "UPPER"

\* line s is the first line holding a digit and a month abbreviation
IsStart(lines, s) ==
    /\ HasDigit(lines[s]) /\ ContainsMonth(lines[s])
    /\ \A t \in 1..(s - 1) : ~(HasDigit(lines[t]) /\ ContainsMonth(lines[t]))

(***************************************************************************)
(* C10.  Start-of-data detection: no line before the first line holding a  *)
(* digit and a month abbreviation contributes a row, and a block none of   *)
(* whose lines is dated in January yields every well-formed line from      *)
(* that start line up to the footer.                                       *)
(***************************************************************************)
C10_StartOfData ==
    Parsed =>
        LET lines == response.lines
        IN /\ \A j \in 1..Len(data) :
                  \E s, i \in 1..Len(lines) :
                      IsStart(lines, s) /\ s <= i /\ RecordOf(data[j], lines[i])
           /\ (\A i \in 1..Len(lines) : ~ContainsJAN(lines[i])) =>
                  \A s, i \in 1..Len(lines) :
                      (/\ IsStart(lines, s)
                       /\ s <= i
                       /\ \A f \in s..i : ~ContainsFooter(lines[f])
                       /\ WellFormed(lines[i]))
                      => Emitted(lines[i])

====
